---- MODULE Spec2Model ----
(***************************************************************************)
(* Model of src/blob.rs: the `Versionize` implementations of `Blob<T>`     *)
(* (raw byte image of a fixed-size value) and of `FamBlob<T>` (a header    *)
(* followed by a length-prefixed sequence of entries).                     *)
(*                                                                         *)
(* One caller writes a stream of Blob / FamBlob values into a byte sink    *)
(* and then reads the same types back, in the same order, from a byte      *)
(* source made from that stream.  Every `write_all` may fail after any     *)
(* number of bytes, every `read_exact` may find the source cut short, and  *)
(* the count field of a serialized header may have been overwritten in     *)
(* the source.  A call into the codec is a sequence of steps, one per      *)
(* write or read the code issues.                                          *)
(*                                                                         *)
(* The concrete types are repr(C) structs without padding, in the native   *)
(* (little-endian) byte order:                                             *)
(*   Header { len: u16, flags: u16 }      the FamStruct, size 4            *)
(*   Entry  { index: u8, data: u8 }       FamStruct::Entry, size 2         *)
(***************************************************************************)
EXTENDS Integers, Sequences, FiniteSets, TLC

\* ------------------------------------------------------------- bounds
\* Largest number of entries of a wrapper the owner builds.
MaxEntries == 2
\* Largest number of values serialized back to back into one stream.
MaxItems == 2

\* ------------------------------------------------------------- types
\* size_of::<Header>() and size_of::<Entry>() for the two structs above.
SizeOfHeader == 4
SizeOfEntry == 2
\* Width of the sequence codec's length indicator (a u64).
SizeOfLen == 8

\* The values of the header's `flags` field the owner uses.
FlagVals == {0, 258}
\* The k-th entry the owner puts into a wrapper (pairwise distinct).
EntryAt(k) == [index |-> k, data |-> 16 + k]
EntrySeq(n) == [k \in 1..n |-> EntryAt(k)]
\* Values handed to a standalone Blob<Header>.
BlobVals == {[len |-> 0, flags |-> 0], [len |-> 513, flags |-> 258]}
\* The version map and target / source version arguments of a call.
VersionArgs == [map : {"vmA", "vmB"}, version : {1, 2}]
NoVersion == [map |-> "vmA", version |-> 1]

\* T::default() of the header: #[derive(Default)] zeroes every field.
DefaultHeader == [len |-> 0, flags |-> 0]
DefaultEntry == [index |-> 0, data |-> 0]

\* --------------------------------------------------- byte images of T
\* slice::from_raw_parts(t as *const T as *const u8, size_of::<T>()):
\* the bytes of the value in memory, fields in declaration order, each
\* u16 low byte first.
HeaderImage(h) ==
  <<h.len % 256, (h.len \div 256) % 256, h.flags % 256, (h.flags \div 256) % 256>>

EntryImage(e) == <<e.index % 256, e.data % 256>>

\* Mutant of HeaderRefill: the bytes of each field taken high byte first.
HeaderRefillSwapped(obj, b) == [len |-> 256 * b[1] + b[2], flags |-> 256 * b[3] + b[4]]

\* slice::from_raw_parts_mut(t as *mut T as *mut u8, size_of::<T>()) filled
\* by read_exact: every byte of the object is overwritten by the source's
\* bytes, so the object's previous (default) contents do not survive.
HeaderRefill(obj, b) == [len |-> b[1] + 256 * b[2], flags |-> b[3] + 256 * b[4]]

EntryRefill(obj, b) == [index |-> b[1], data |-> b[2]]

\* ----------------------------------------------- FamStructWrapper<T>
\* A wrapper is its header and the entries allocated behind it.
\* FamStructWrapper::from_entries: allocates for the entries, sets the
\* header's len to their number and copies them in.
FromEntries(es) == [hdr |-> [DefaultHeader EXCEPT !.len = Len(es)], mem |-> es]

\* as_fam_struct_ref(): the header.
AsFamStructRef(w) == w.hdr

\* FamStruct::len(): the count the wrapper shows is the header's field.
Count(w) == w.hdr.len

\* as_slice(): the first len() entries behind the header.  It is applied
\* to the owner's wrappers only, whose len() is the number of entries
\* allocated.
AsSlice(w) == SubSeq(w.mem, 1, Count(w))

\* The wrappers an owner builds: from_entries, then the header's other
\* field set through as_mut_fam_struct().
OwnerWrapper(n, f) == [FromEntries(EntrySeq(n)) EXCEPT !.hdr.flags = f]
OwnerWrappers == {OwnerWrapper(n, f) : n \in 0..MaxEntries, f \in FlagVals}

\* -------------------------------------------------- sequence codec
\* The length indicator of Vec<T>: the length as a little-endian u64.
\* Lengths in the model stay below 2^24, so bytes 4..8 are zero.
U64Image(n) ==
  [i \in 1..SizeOfLen |->
     IF i = 1 THEN n % 256
     ELSE IF i = 2 THEN (n \div 256) % 256
     ELSE IF i = 3 THEN (n \div 65536) % 256
     ELSE 0]

\* The length read back; a value of 2^24 or more is reported as 2^24
\* (it is only ever compared with the number of entries read so far).
U64FromImage(b) ==
  IF \E i \in 4..SizeOfLen : b[i] # 0 THEN 16777216
  ELSE b[1] + 256 * b[2] + 65536 * b[3]

VARIABLES
  pc,        \* position of the caller / of the call in progress
  sink,      \* bytes the writer has received
  items,     \* log of the values serialized into sink, with their extents
  arg,       \* the value or wrapper the current / last serialize borrows (&self)
  passed,    \* what arg was when that call started
  vers,      \* version map and version handed to the current / last call
  base,      \* stream offset at which the call in progress started
  vec,       \* FamBlob::serialize: the collected Vec<Blob<Entry>>
  idx,       \* Vec::serialize: entries written so far
  src,       \* bytes of the reader
  pos,       \* bytes the reader has yielded
  tamper,    \* what was done to the stream before reading it
  rd,        \* index of the next item to deserialize
  header,    \* FamBlob::deserialize: the decoded header
  entries,   \* Vec::deserialize: entries decoded so far
  remaining, \* Vec::deserialize: the decoded length
  decoded,   \* the values returned by the successful deserialize calls
  result     \* outcome of the last call

vars == <<pc, sink, items, arg, passed, vers, base, vec, idx, src, pos, tamper,
          rd, header, entries, remaining, decoded, result>>

wvars == <<sink, items, arg, passed, base, vec, idx>>
rvars == <<src, pos, tamper, rd, header, entries, remaining, decoded>>

NoResult == [call |-> "none", status |-> "none", at |-> "none"]

Init ==
  /\ pc = "idle"
  /\ sink = <<>>
  /\ items = <<>>
  /\ arg = DefaultHeader
  /\ passed = DefaultHeader
  /\ vers = NoVersion
  /\ base = 0
  /\ vec = <<>>
  /\ idx = 0
  /\ src = <<>>
  /\ pos = 0
  /\ tamper = [kind |-> "none"]
  /\ rd = 1
  /\ header = DefaultHeader
  /\ entries = <<>>
  /\ remaining = 0
  /\ decoded = <<>>
  /\ result = NoResult

\* ------------------------------------------------------- byte sink
\* Blob::write_bytes: w.write_all(image).  The sink takes the first k
\* bytes; the write is Ok iff it took them all.
WriteBytes(img, k) == sink' = sink \o SubSeq(img, 1, k)
WriteOk(img, k) == k = Len(img)

\* ------------------------------------------------------ byte source
\* Blob::read_bytes: r.read_exact(slice) for a slice of n bytes, when the
\* reader ends after yielding avail more bytes of src.  Ok iff avail = n.
Available(n) == {a \in 0..n : pos + a <= Len(src)}

\* Mutant of ReadOk: `read` in place of `read_exact`, a short read passes.
ReadOkShort(n, avail) == avail > 0

ReadOk(n, avail) == avail = n
ReadBytes(n) == SubSeq(src, pos + 1, pos + n)

\* `.unwrap()` on an Err: the thread panics, the call never returns.
Panic(call, where) ==
  /\ pc' = "aborted"
  /\ result' = [call |-> call, status |-> "panic", at |-> where]

\* The call returns Err(e) to its caller, who gives the stream up.
ReturnErr(call, where) ==
  /\ pc' = "returned_err"
  /\ result' = [call |-> call, status |-> "err", at |-> where]

\* The call returns Ok(..).
Ok(call) == [call |-> call, status |-> "ok", at |-> "end"]

\* ------------------------------------------------- Blob<T>::serialize
\* Mutant of BlobWire: a version tag precedes the image of any version but 1.
BlobWireTagged(img, vs) == IF vs.version # 1 THEN <<vs.version>> \o img ELSE img

\* Mutant of BlobWire: the image is padded to a 4-byte stream offset.
BlobWireAligned(img, vs) == (IF Len(sink) % 4 = 0 THEN <<>> ELSE <<0, 0>>) \o img

\* What Blob::serialize hands to write_bytes for a value with byte image
\* img: `&self.0`, whole; _version_map and _target_version are not read.
BlobWire(img, vs) == img

\* Ok(Blob::<T>::write_bytes(writer, &self.0).unwrap())
BlobSerialize ==
  /\ pc = "idle"
  /\ Len(items) < MaxItems
  /\ \E v \in BlobVals, vs \in VersionArgs :
     \E k \in 0..Len(BlobWire(HeaderImage(v), vs)) :
       /\ arg' = v
       /\ passed' = v
       /\ vers' = vs
       /\ base' = Len(sink)
       /\ WriteBytes(BlobWire(HeaderImage(v), vs), k)
       /\ IF WriteOk(BlobWire(HeaderImage(v), vs), k)
          THEN /\ pc' = "idle"
               /\ result' = Ok("Blob::serialize")
               /\ items' = Append(items, [kind |-> "blob", val |-> v,
                                          from |-> Len(sink), to |-> Len(sink')])
          ELSE /\ Panic("Blob::serialize", "value")
               /\ UNCHANGED items
  /\ UNCHANGED <<vec, idx>>
  /\ UNCHANGED rvars

\* Blob::<T>::version()
BlobVersion == 1

\* FamBlob::<T>::version()
FamBlobVersion == 1

\* ----------------------------------------------- FamBlob<T>::serialize
\* Mutant of Collect: the entries collected last to first.
CollectReversed(w) == [k \in 1..Len(AsSlice(w)) |-> AsSlice(w)[Len(AsSlice(w)) + 1 - k]]

\* self.0.as_slice().iter().map(|x| Blob(*x)).collect::<Vec<_>>()
Collect(w) == AsSlice(w)

\* Blob::<T>::write_bytes(&mut writer, self.0.as_fam_struct_ref()).unwrap(),
\* then the entries are collected into a Vec<Blob<Entry>>.
FamSerializeHeader ==
  /\ pc = "idle"
  /\ Len(items) < MaxItems
  /\ \E w \in OwnerWrappers, vs \in VersionArgs, k \in 0..SizeOfHeader :
       /\ arg' = w
       /\ passed' = w
       /\ vers' = vs
       /\ base' = Len(sink)
       /\ WriteBytes(HeaderImage(AsFamStructRef(w)), k)
       /\ IF WriteOk(HeaderImage(AsFamStructRef(w)), k)
          THEN /\ pc' = "ser_len"
               /\ vec' = Collect(w)
               /\ result' = NoResult
          ELSE /\ Panic("FamBlob::serialize", "header")
               /\ UNCHANGED vec
  /\ idx' = 0
  /\ UNCHANGED items
  /\ UNCHANGED rvars

\* Vec::serialize, first step: the length indicator.  A failed write is
\* returned as an error, and FamBlob::serialize returns it in turn.
VecSerializeLen ==
  /\ pc = "ser_len"
  /\ \E k \in 0..SizeOfLen :
       /\ WriteBytes(U64Image(Len(vec)), k)
       /\ IF WriteOk(U64Image(Len(vec)), k)
          THEN pc' = "ser_elems" /\ UNCHANGED result
          ELSE ReturnErr("FamBlob::serialize", "len")
  /\ UNCHANGED <<items, arg, passed, vers, base, vec, idx>>
  /\ UNCHANGED rvars

\* Vec::serialize, the loop: each element is a Blob<Entry>, serialized by
\* Blob::serialize with the caller's version map and target version.
VecSerializeElem ==
  /\ pc = "ser_elems"
  /\ idx < Len(vec)
  /\ \E k \in 0..Len(BlobWire(EntryImage(vec[idx + 1]), vers)) :
       /\ WriteBytes(BlobWire(EntryImage(vec[idx + 1]), vers), k)
       /\ IF WriteOk(BlobWire(EntryImage(vec[idx + 1]), vers), k)
          THEN /\ idx' = idx + 1
               /\ UNCHANGED <<pc, result>>
          ELSE /\ Panic("FamBlob::serialize", "entry")
               /\ UNCHANGED idx
  /\ UNCHANGED <<items, arg, passed, vers, base, vec>>
  /\ UNCHANGED rvars

\* Vec::serialize returns Ok(()), which FamBlob::serialize returns.
FamSerializeReturn ==
  /\ pc = "ser_elems"
  /\ idx = Len(vec)
  /\ pc' = "idle"
  /\ result' = Ok("FamBlob::serialize")
  /\ items' = Append(items, [kind |-> "fam", val |-> passed,
                             from |-> base, to |-> Len(sink)])
  /\ UNCHANGED <<sink, arg, passed, vers, base, vec, idx>>
  /\ UNCHANGED rvars

\* ------------------------------------------------------ the reader
\* The caller hands `reader: &mut R` a source holding the stream as written.
OpenSource ==
  /\ pc = "idle"
  /\ items # <<>>
  /\ pc' = "reading"
  /\ src' = sink
  /\ pos' = 0
  /\ rd' = 1
  /\ tamper' = [kind |-> "none"]
  /\ result' = NoResult
  /\ UNCHANGED <<header, entries, remaining, decoded, vers>>
  /\ UNCHANGED wvars

\* The stream with the len field of the header at offset off overwritten by m.
WithCount(bytes, off, m) ==
  [j \in 1..Len(bytes) |->
     IF j = off + 1 THEN m % 256
     ELSE IF j = off + 2 THEN (m \div 256) % 256
     ELSE bytes[j]]

\* The same, after the count field in the header bytes of one serialized
\* wrapper was overwritten with another value m.
OpenTamperedSource ==
  /\ pc = "idle"
  /\ \E i \in 1..Len(items), m \in 0..(MaxEntries + 1) :
       /\ items[i].kind = "fam"
       /\ m # Count(items[i].val)
       /\ src' = WithCount(sink, items[i].from, m)
       /\ tamper' = [kind |-> "count", item |-> i, count |-> m]
  /\ pc' = "reading"
  /\ pos' = 0
  /\ rd' = 1
  /\ result' = NoResult
  /\ UNCHANGED <<header, entries, remaining, decoded, vers>>
  /\ UNCHANGED wvars

\* ----------------------------------------------- Blob<T>::deserialize
\* let mut obj = Blob::<T>::default();
\* Blob::<T>::read_bytes(reader, &mut obj.0).unwrap(); Ok(obj)
BlobDeserialize ==
  /\ pc = "reading"
  /\ rd <= Len(items)
  /\ items[rd].kind = "blob"
  /\ \E vs \in VersionArgs, avail \in Available(SizeOfHeader) :
       /\ vers' = vs
       /\ pos' = pos + avail
       /\ IF ReadOk(SizeOfHeader, avail)
          THEN LET obj == HeaderRefill(DefaultHeader, ReadBytes(SizeOfHeader)) IN
               /\ result' = Ok("Blob::deserialize")
               /\ decoded' = Append(decoded, obj)
               /\ rd' = rd + 1
               /\ UNCHANGED pc
          ELSE /\ Panic("Blob::deserialize", "value")
               /\ UNCHANGED <<decoded, rd>>
  /\ base' = pos
  /\ UNCHANGED <<src, tamper, header, entries, remaining>>
  /\ UNCHANGED <<sink, items, arg, passed, vec, idx>>

\* -------------------------------------------- FamBlob<T>::deserialize
\* let header = Blob::<T>::deserialize(reader, version_map, source_version)?.0;
FamDeserializeHeader ==
  /\ pc = "reading"
  /\ rd <= Len(items)
  /\ items[rd].kind = "fam"
  /\ \E vs \in VersionArgs, avail \in Available(SizeOfHeader) :
       /\ vers' = vs
       /\ pos' = pos + avail
       /\ IF ReadOk(SizeOfHeader, avail)
          THEN /\ header' = HeaderRefill(DefaultHeader, ReadBytes(SizeOfHeader))
               /\ pc' = "de_len"
               /\ result' = NoResult
          ELSE /\ Panic("FamBlob::deserialize", "header")
               /\ UNCHANGED header
  /\ base' = pos
  /\ entries' = <<>>
  /\ remaining' = 0
  /\ UNCHANGED <<src, tamper, rd, decoded>>
  /\ UNCHANGED <<sink, items, arg, passed, vec, idx>>

\* Vec::deserialize, first step: the length indicator.  A short read is
\* returned as an error, which the `?` in FamBlob::deserialize returns.
VecDeserializeLen ==
  /\ pc = "de_len"
  /\ \E avail \in Available(SizeOfLen) :
       /\ pos' = pos + avail
       /\ IF ReadOk(SizeOfLen, avail)
          THEN /\ remaining' = U64FromImage(ReadBytes(SizeOfLen))
               /\ pc' = "de_elems"
               /\ UNCHANGED result
          ELSE /\ ReturnErr("FamBlob::deserialize", "len")
               /\ UNCHANGED remaining
  /\ UNCHANGED <<src, tamper, rd, header, entries, decoded, vers>>
  /\ UNCHANGED wvars

\* Vec::deserialize, the loop: each element is read by Blob::deserialize
\* and pushed.
VecDeserializeElem ==
  /\ pc = "de_elems"
  /\ Len(entries) < remaining
  /\ \E avail \in Available(SizeOfEntry) :
       /\ pos' = pos + avail
       /\ IF ReadOk(SizeOfEntry, avail)
          THEN /\ entries' = Append(entries, EntryRefill(DefaultEntry, ReadBytes(SizeOfEntry)))
               /\ UNCHANGED <<pc, result>>
          ELSE /\ Panic("FamBlob::deserialize", "entry")
               /\ UNCHANGED entries
  /\ UNCHANGED <<src, tamper, rd, header, remaining, decoded, vers>>
  /\ UNCHANGED wvars

\* Mutant of AssignFamStruct: the decoded header is not stored.
AssignNothing(obj, h) == obj

\* let mut obj = FamStructWrapper::from_entries(&entries);
\* *obj.as_mut_fam_struct() = header;
\* The assignment stores the whole decoded header, its len field included.
AssignFamStruct(obj, h) == [obj EXCEPT !.hdr = h]

\* Ok(FamBlob(obj))
FamDeserializeBuild ==
  /\ pc = "de_elems"
  /\ Len(entries) = remaining
  /\ LET obj == AssignFamStruct(FromEntries(entries), header) IN
       /\ result' = Ok("FamBlob::deserialize")
       /\ decoded' = Append(decoded, obj)
  /\ rd' = rd + 1
  /\ pc' = "reading"
  /\ UNCHANGED <<src, pos, tamper, header, entries, remaining, vers>>
  /\ UNCHANGED wvars

Next ==
  \/ BlobSerialize
  \/ FamSerializeHeader
  \/ VecSerializeLen
  \/ VecSerializeElem
  \/ FamSerializeReturn
  \/ OpenSource
  \/ OpenTamperedSource
  \/ BlobDeserialize
  \/ FamDeserializeHeader
  \/ VecDeserializeLen
  \/ VecDeserializeElem
  \/ FamDeserializeBuild

Spec == Init /\ [][Next]_vars

\* ===================================================== the claims
\* Bytes the call in progress (or the last one) has put into the sink.
Written == SubSeq(sink, base + 1, Len(sink))

\* Bytes of the sink that the i-th serialized value occupies.
Segment(i) == SubSeq(sink, items[i].from + 1, items[i].to)

IsPrefix(a, b) == Len(a) <= Len(b) /\ SubSeq(b, 1, Len(a)) = a

RECURSIVE EntryImages(_)
EntryImages(es) ==
  IF es = <<>> THEN <<>> ELSE EntryImage(Head(es)) \o EntryImages(Tail(es))

\* The wire format of a wrapper: the header's image, the length
\* indicator, the entries' images in sequence order.
FamWire(w) == HeaderImage(w.hdr) \o U64Image(Len(w.mem)) \o EntryImages(w.mem)

\* The i-th item of the stream reached the reader as it was written.
Untouched(i) == tamper.kind = "none" \/ tamper.item # i

\* C1 (as claimed): whenever FamBlob::deserialize returns Ok, the count the
\* returned wrapper shows equals the number of entries it decoded, whatever
\* count the header bytes of the source carried.
CountAuthority ==
  \A i \in 1..Len(decoded) :
    items[i].kind = "fam" => Count(decoded[i]) = Len(decoded[i].mem)

\* C2: Blob::deserialize on the bytes Blob::serialize wrote returns a value
\* with the byte image of the one serialized, for every version argument,
\* and it fails only when the source ended inside those bytes.
BlobRoundTrip ==
  /\ \A i \in 1..Len(decoded) :
       items[i].kind = "blob" =>
         /\ decoded[i] = items[i].val
         /\ HeaderImage(decoded[i]) = Segment(i)
  /\ (result.call = "Blob::deserialize" /\ result.status # "ok")
       => pos < items[rd].to

BlobRoundTripWitness ==
  /\ result = Ok("Blob::deserialize")
  /\ vers = [map |-> "vmB", version |-> 2]
  /\ decoded[rd - 1] = [len |-> 513, flags |-> 258]

\* C3: a wrapper the owner built from entries and a header, serialized and
\* then deserialized, comes back with the same entries in the same order
\* and the same other header field; built from no entries it comes back
\* with count 0.
FamRoundTrip ==
  \A i \in 1..Len(decoded) :
    (items[i].kind = "fam" /\ Untouched(i)) =>
      /\ AsSlice(decoded[i]) = AsSlice(items[i].val)
      /\ decoded[i].mem = items[i].val.mem
      /\ decoded[i].hdr.flags = items[i].val.hdr.flags
      /\ (items[i].val.mem = <<>> => Count(decoded[i]) = 0)

FamRoundTripWitness ==
  /\ tamper.kind = "none"
  /\ Len(decoded) = 2
  /\ items[1].val = OwnerWrapper(0, 258)
  /\ items[2].val = OwnerWrapper(MaxEntries, 258)
  /\ decoded[1].mem = <<>> /\ Count(decoded[1]) = 0
  /\ Len(decoded[2].mem) = MaxEntries

\* C4 (as claimed): when the source ends inside the fixed-size image that
\* Blob::deserialize, or the header step of FamBlob::deserialize, reads,
\* the call returns an error to its caller and the process is not aborted.
TruncatedHeaderIsError ==
  (/\ result.call \in {"Blob::deserialize", "FamBlob::deserialize"}
   /\ result.at \in {"value", "header"})
    => (result.status = "err" /\ pc # "aborted")

\* C5 (as claimed): when the header is complete and the source ends inside
\* the entries stream (in the length indicator, between entries or inside
\* an entry), FamBlob::deserialize returns an error, returns no wrapper and
\* the process is not aborted.
TruncatedEntriesIsError ==
  (/\ result.call = "FamBlob::deserialize"
   /\ result.at \in {"len", "entry"})
    => (result.status = "err" /\ pc # "aborted" /\ Len(decoded) = rd - 1)

\* C6 (as claimed): when a write to the sink fails, Blob::serialize and
\* FamBlob::serialize (header write and entries write alike) return an
\* error to the caller and the process is not aborted.
SinkFailureIsError ==
  (/\ result.call \in {"Blob::serialize", "FamBlob::serialize"}
   /\ result.at # "end")
    => (result.status = "err" /\ pc # "aborted")

\* C7: FamBlob::serialize puts the whole header image into the sink first,
\* then the length indicator, then the entries' images in sequence order,
\* so what it has written is at every moment a prefix of the wire format
\* that covers the header before anything else; FamBlob::deserialize takes
\* the header from the first size_of(Header) bytes, the length from the
\* next bytes and the j-th entry from the j-th image after them.
WireOrdering ==
  /\ pc = "ser_len" => Written = HeaderImage(passed.hdr)
  /\ pc = "ser_elems" =>
       Written = HeaderImage(passed.hdr) \o U64Image(Len(passed.mem))
                   \o EntryImages(SubSeq(passed.mem, 1, idx))
  /\ result.call = "FamBlob::serialize" => IsPrefix(Written, FamWire(passed))
  /\ \A i \in 1..Len(items) : items[i].kind = "fam" => Segment(i) = FamWire(items[i].val)
  /\ pc \in {"de_len", "de_elems"} =>
       /\ HeaderImage(header) = SubSeq(src, base + 1, base + SizeOfHeader)
       /\ pc = "de_len" => pos = base + SizeOfHeader
  /\ pc = "de_elems" =>
       /\ U64Image(remaining)
            = SubSeq(src, base + SizeOfHeader + 1, base + SizeOfHeader + SizeOfLen)
       /\ EntryImages(entries)
            = SubSeq(src, base + SizeOfHeader + SizeOfLen + 1, pos)

WireOrderingWitness ==
  /\ pc = "de_elems"
  /\ Len(entries) = MaxEntries
  /\ items[rd].val = OwnerWrapper(MaxEntries, 258)
  /\ items[rd].from > 0

\* C8: Blob::serialize writes the size_of(T) bytes of the value's image and
\* nothing else, whatever version map and target version it is given;
\* Blob::version() is 1; in FamBlob::serialize the header bytes are the
\* header's image whatever the version arguments are.
BlobBareImage ==
  /\ BlobVersion = 1
  /\ \A i \in 1..Len(items) :
       /\ items[i].kind = "blob" =>
            /\ items[i].to - items[i].from = SizeOfHeader
            /\ Segment(i) = HeaderImage(items[i].val)
       /\ items[i].kind = "fam" =>
            /\ SubSeq(Segment(i), 1, SizeOfHeader) = HeaderImage(items[i].val.hdr)
            /\ items[i].to - items[i].from
                 = SizeOfHeader + SizeOfLen + SizeOfEntry * Len(items[i].val.mem)
  /\ result = Ok("Blob::serialize") => Written = HeaderImage(passed)
  /\ pc = "ser_len" => Written = HeaderImage(AsFamStructRef(passed))

BlobBareImageWitness ==
  /\ result = Ok("Blob::serialize")
  /\ vers = [map |-> "vmB", version |-> 2]
  /\ Len(items) = 2
  /\ items[1].kind = "blob"
  /\ items[1].val = items[2].val
  /\ items[1].val = [len |-> 513, flags |-> 258]

ExactConsumption ==
  /\ pc = "reading" => pos = (IF rd = 1 THEN 0 ELSE items[rd - 1].to)
  /\ Len(decoded) = rd - 1
  /\ \A i \in 1..Len(decoded) :
       /\ items[i].kind = "blob" => decoded[i] = items[i].val
       /\ (items[i].kind = "fam" /\ Untouched(i)) => decoded[i] = items[i].val

ExactConsumptionWitness ==
  /\ pc = "reading"
  /\ rd = 3
  /\ pos = Len(src)
  /\ items[1].kind = "fam" /\ Len(items[1].val.mem) = 1
  /\ items[2].kind = "blob"
  /\ decoded[2] = [len |-> 513, flags |-> 258]

====
